---- MODULE Spec2Model ----
(***************************************************************************)
(* expressive-ts, src/Expression.ts: a builder of regular expressions.     *)
(*                                                                         *)
(* A text is a sequence of one-character strings, so that sanitize, the    *)
(* templates and the renderings are computed character by character.       *)
(* An ExpressionBuilder is a function Expression -> Expression (a Traced   *)
(* value).  It is modelled by the list of the closures it is made of,      *)
(* innermost first: the empty list is `compile` (identity), and every      *)
(* T.map / C.extend wraps the list in one more node.  Run applies a        *)
(* builder to a starting Expression.                                       *)
(***************************************************************************)
EXTENDS Integers, Sequences, FiniteSets, TLC

VARIABLES builder, calls, arg, ret

vars == <<builder, calls, arg, ret>>

(***************************************************************************)
(* Bounds                                                                  *)
(***************************************************************************)
\* number of combinator calls in one pipe
MaxCalls == 2
\* length of the fragments given to add, prefix and suffix
MaxStrLen == 1
\* length of the inputs given to sanitize on its own
MaxSanitizeLen == 2
\* number of primitive (add / prefix / suffix) steps
MaxPrims == 2

(***************************************************************************)
(* Texts                                                                   *)
(***************************************************************************)
Front(s) == SubSeq(s, 1, Len(s) - 1)

Last(s) == s[Len(s)]

RECURSIVE StringsUpTo(_, _)
StringsUpTo(alphabet, n) ==
  IF n = 0 THEN {<<>>}
  ELSE LET shorter == StringsUpTo(alphabet, n - 1)
       IN shorter \cup {Append(s, c) : s \in shorter, c \in alphabet}

\* S.Monoid: the empty string and string concatenation
SMonoidEmpty == <<>>

SMonoidConcat(x, y) == x \o y

\* M.concatAll(S.Monoid): fold of an array of strings from the empty string
RECURSIVE stringConcat(_)
stringConcat(as) ==
  IF as = <<>> THEN SMonoidEmpty
  ELSE SMonoidConcat(stringConcat(Front(as)), Last(as))

\* template literal `${n}` of an integer: its decimal digits, "-" first when negative
DecimalDigit(d) ==
  CASE d = 0 -> "0" [] d = 1 -> "1" [] d = 2 -> "2" [] d = 3 -> "3" [] d = 4 -> "4"
    [] d = 5 -> "5" [] d = 6 -> "6" [] d = 7 -> "7" [] d = 8 -> "8" [] d = 9 -> "9"

RECURSIVE NatToString(_)
NatToString(n) ==
  IF n < 10 THEN <<DecimalDigit(n)>> ELSE Append(NatToString(n \div 10), DecimalDigit(n % 10))

NumberToString(n) == IF n < 0 THEN <<"-">> \o NatToString(0 - n) ELSE NatToString(n)

(***************************************************************************)
(* models: Flags, Expression                                               *)
(***************************************************************************)
FlagNames == {"allowMultiple", "caseInsensitive", "lineByLine", "singleLine", "sticky", "unicode"}

\* a boolean merge that is false when both operands are true
BMonoidAnyConcat_Xor(x, y) == x # y

\* B.MonoidAny
BMonoidAnyConcat(x, y) == x \/ y

monoidFlagsEmpty ==
  [allowMultiple |-> FALSE, caseInsensitive |-> FALSE, lineByLine |-> FALSE,
   singleLine |-> FALSE, sticky |-> FALSE, unicode |-> FALSE]

\* a merge that keeps the right operand only
monoidFlagsConcat_Last(x, y) == y

\* a merge that switches a flag off when both operands have it
monoidFlagsConcat_Xor(x, y) ==
  [allowMultiple |-> x.allowMultiple # y.allowMultiple,
   caseInsensitive |-> x.caseInsensitive # y.caseInsensitive,
   lineByLine |-> x.lineByLine # y.lineByLine,
   singleLine |-> x.singleLine # y.singleLine,
   sticky |-> x.sticky # y.sticky,
   unicode |-> x.unicode # y.unicode]

monoidFlagsConcat(x, y) ==
  [allowMultiple |-> BMonoidAnyConcat(x.allowMultiple, y.allowMultiple),
   caseInsensitive |-> BMonoidAnyConcat(x.caseInsensitive, y.caseInsensitive),
   lineByLine |-> BMonoidAnyConcat(x.lineByLine, y.lineByLine),
   singleLine |-> BMonoidAnyConcat(x.singleLine, y.singleLine),
   sticky |-> BMonoidAnyConcat(x.sticky, y.sticky),
   unicode |-> BMonoidAnyConcat(x.unicode, y.unicode)]

monoidExpressionEmpty ==
  [prefix |-> SMonoidEmpty, pattern |-> SMonoidEmpty, suffix |-> SMonoidEmpty,
   source |-> SMonoidEmpty, flags |-> monoidFlagsEmpty]

monoidExpressionConcat(x, y) ==
  [prefix |-> SMonoidConcat(x.prefix, y.prefix),
   pattern |-> SMonoidConcat(x.pattern, y.pattern),
   suffix |-> SMonoidConcat(x.suffix, y.suffix),
   source |-> SMonoidConcat(x.source, y.source),
   flags |-> monoidFlagsConcat(x.flags, y.flags)]

(***************************************************************************)
(* utils: sanitize                                                         *)
(***************************************************************************)
\* a class that misses "=" and ":"
toEscape_Short ==
  {"]", ".", "|", "*", "?", "+", "(", ")", "{", "}", "^", "$", "\\", "["}

\* the character class of /([\].|*?+(){}^$\\:=[])/g
toEscape ==
  {"]", ".", "|", "*", "?", "+", "(", ")", "{", "}", "^", "$", "\\", ":", "=", "["}

\* the replacement text `\\${lastMatch}`: a backslash, then the pattern $&
lastMatch == "$&"

sanitizeReplacement == <<"\\", lastMatch>>

\* expansion of a replacement text for one match: $& stands for the matched text
RECURSIVE GetSubstitution(_, _)
GetSubstitution(replacement, matched) ==
  IF replacement = <<>> THEN <<>>
  ELSE (IF Head(replacement) = "$&" THEN <<matched>> ELSE <<Head(replacement)>>)
       \o GetSubstitution(Tail(replacement), matched)

\* String.prototype.replace with a global one-character class: every match is
\* replaced, left to right, and the text between the matches is copied
RECURSIVE StringReplaceAll(_, _, _)
StringReplaceAll(value, class, replacement) ==
  IF value = <<>> THEN <<>>
  ELSE (IF Head(value) \in class
        THEN GetSubstitution(replacement, Head(value))
        ELSE <<Head(value)>>)
       \o StringReplaceAll(Tail(value), class, replacement)

sanitize(value) == StringReplaceAll(value, toEscape, sanitizeReplacement)

(***************************************************************************)
(* The Traced comonad over monoidExpression and the primitive steps        *)
(***************************************************************************)
\* doublePipe(flow(reader, stringConcat, lens(prop).set)): the field prop of e is
\* replaced by the concatenation of `read`, the strings the reader reads in e
expressionPropReplacer(prop, read, e) ==
  [e EXCEPT ![prop] = stringConcat(read)]

\* add that leaves the pattern as it was
addEndo_StalePattern(value, e) ==
  expressionPropReplacer("source", <<e.source, value>>, e)

\* add that puts the fragment in front of the source
addEndo_Prepend(value, e) ==
  LET sourced == expressionPropReplacer("source", <<value, e.source>>, e)
  IN expressionPropReplacer("pattern", <<sourced.prefix, sourced.source, sourced.suffix>>, sourced)

\* add that computes the pattern without the suffix
addEndo_DropsSuffix(value, e) ==
  LET sourced == expressionPropReplacer("source", <<e.source, value>>, e)
  IN expressionPropReplacer("pattern", <<sourced.prefix, sourced.source>>, sourced)

\* add that appends the fragment to the pattern it finds
addEndo_AfterPattern(value, e) ==
  LET sourced == expressionPropReplacer("source", <<e.source, value>>, e)
  IN expressionPropReplacer("pattern", <<e.pattern, value>>, sourced)

\* the function that `add` maps over a builder
addEndo(value, e) ==
  LET sourced == expressionPropReplacer("source", <<e.source, value>>, e)
  IN expressionPropReplacer("pattern", <<sourced.prefix, sourced.source, sourced.suffix>>, sourced)

\* the function that `prefix` maps over a builder
prefixEndo(value, e) ==
  expressionPropReplacer("prefix", <<e.prefix, value>>, e)

\* the function that `suffix` maps over a builder
suffixEndo(value, e) ==
  expressionPropReplacer("suffix", <<value, e.suffix>>, e)

\* T.map(f)(wa) = (p) => f(wa(p))
TMap(fn, value, wa) == Append(wa, [tag |-> "map", fn |-> fn, value |-> value])

\* C.extend(wa, withFlag(value)) = (p1) => withFlag(value)((p2) => wa(concat(p1, p2)))
CExtend(wa, flag, value) == Append(wa, [tag |-> "extend", flag |-> flag, value |-> value])

\* a shifted closure that forgets the builder it wraps
Shifted_Forget(wa, p1) == <<[tag |-> "shift", p |-> p1]>>

\* the closure (p2) => wa(monoidExpression.concat(p1, p2)) made by C.extend
Shifted(wa, p1) == Append(wa, [tag |-> "shift", p |-> p1])

\* a flag Expression that leaves the flag as the empty Expression has it
flagExpression_Off(flag, value) == monoidExpressionEmpty

\* pipe(monoidExpression.empty, flagLens.set(value))
flagExpression(flag, value) ==
  [monoidExpressionEmpty EXCEPT !.flags = [@ EXCEPT ![flag] = value]]

RECURSIVE Run(_, _)
RECURSIVE getWithFlag(_, _, _)
\* getWithFlag(flag)(value)(wa) = wa(exp)
getWithFlag(flag, value, wa) == Run(wa, flagExpression(flag, value))

\* wa(p): the application of the builder wa to the Expression p
Run(wa, p) ==
  IF wa = <<>> THEN p
  ELSE LET node == Last(wa)
           inner == Front(wa)
       IN CASE node.tag = "map" /\ node.fn = "add" -> addEndo(node.value, Run(inner, p))
            [] node.tag = "map" /\ node.fn = "prefix" -> prefixEndo(node.value, Run(inner, p))
            [] node.tag = "map" /\ node.fn = "suffix" -> suffixEndo(node.value, Run(inner, p))
            [] node.tag = "extend" -> getWithFlag(node.flag, node.value, Shifted(inner, p))
            [] node.tag = "shift" -> Run(inner, monoidExpressionConcat(node.p, p))

\* builder(monoidExpression.empty), as the destructors evaluate a builder
Extract(wa) == Run(wa, monoidExpressionEmpty)

(***************************************************************************)
(* destructors                                                             *)
(***************************************************************************)
flagsToChar ==
  [allowMultiple |-> "g", caseInsensitive |-> "i", lineByLine |-> "m",
   singleLine |-> "s", unicode |-> "u", sticky |-> "y"]

\* the keys in the order flagsToChar writes them
sortedFlagKeys_Declared ==
  <<"allowMultiple", "caseInsensitive", "lineByLine", "singleLine", "unicode", "sticky">>

\* the keys R.foldMapWithIndex visits: Object.keys(flags).sort()
sortedFlagKeys ==
  <<"allowMultiple", "caseInsensitive", "lineByLine", "singleLine", "sticky", "unicode">>

\* (k, v) => (v ? flagsToChar[k] : '')
flagToChar(k, v) == IF v THEN <<flagsToChar[k]>> ELSE <<>>

\* R.foldMapWithIndex(S.Monoid)(flagToChar)(r): the fold of flagToChar(k, r[k])
\* over the keys ks of r
RECURSIVE foldMapWithIndex(_, _)
foldMapWithIndex(r, ks) ==
  IF ks = <<>> THEN SMonoidEmpty
  ELSE SMonoidConcat(foldMapWithIndex(r, Front(ks)), flagToChar(Last(ks), r[Last(ks)]))

toFlags(flags) == foldMapWithIndex(flags, sortedFlagKeys)

\* RegExp.prototype.flags: the flags of a RegExp, read in the engine's own order
regExpFlagOrder == <<"g", "i", "m", "s", "u", "y">>

InText(c, text) == \E i \in 1..Len(text) : text[i] = c

RegExpFlags(text) ==
  stringConcat([i \in 1..Len(regExpFlagOrder) |->
                  IF InText(regExpFlagOrder[i], text) THEN <<regExpFlagOrder[i]>> ELSE <<>>])

\* the line terminators LF, CR, U+2028 and U+2029; the last two, which no
\* string of this notation can hold, are written by name
LineTerminators == {"\n", "\r", "U+2028", "U+2029"}

\* what RegExp.prototype.source writes after a backslash for a line terminator
LineTerminatorEscape(c) ==
  CASE c = "\n" -> <<"n">>
    [] c = "\r" -> <<"r">>
    [] c = "U+2028" -> <<"u", "2", "0", "2", "8">>
    [] c = "U+2029" -> <<"u", "2", "0", "2", "9">>

\* RegExp.prototype.source: the pattern with every "/" outside a character class
\* escaped and every line terminator, in a class or not and after a backslash or
\* not, written as its escape
RECURSIVE EscapeSlashes(_, _, _)
EscapeSlashes(pattern, inClass, escaped) ==
  IF pattern = <<>> THEN <<>>
  ELSE LET c == Head(pattern)
       IN IF c \in LineTerminators
            THEN (IF escaped THEN <<>> ELSE <<"\\">>) \o LineTerminatorEscape(c)
                 \o EscapeSlashes(Tail(pattern), inClass, FALSE)
          ELSE IF escaped THEN <<c>> \o EscapeSlashes(Tail(pattern), inClass, FALSE)
          ELSE IF c = "\\" THEN <<c>> \o EscapeSlashes(Tail(pattern), inClass, TRUE)
          ELSE IF c = "/" /\ ~inClass THEN <<"\\", "/">> \o EscapeSlashes(Tail(pattern), inClass, FALSE)
          ELSE IF c = "[" THEN <<c>> \o EscapeSlashes(Tail(pattern), TRUE, FALSE)
          ELSE IF c = "]" THEN <<c>> \o EscapeSlashes(Tail(pattern), FALSE, FALSE)
          ELSE <<c>> \o EscapeSlashes(Tail(pattern), inClass, FALSE)

\* a source that is the pattern as it was given
RegExpSource_Raw(pattern) == pattern

\* RegExp.prototype.source: "(?:)" for the empty pattern
RegExpSource(pattern) ==
  IF pattern = <<>> THEN <<"(", "?", ":", ")">> ELSE EscapeSlashes(pattern, FALSE, FALSE)

\* the printable characters in the order of their character codes, from the
\* space (code 32) to the tilde (code 126); "grave" stands for code 96
AsciiPrintable ==
  <<" ", "!", "\"", "#", "$", "%", "&", "'", "(", ")", "*", "+", ",", "-", ".", "/",
    "0", "1", "2", "3", "4", "5", "6", "7", "8", "9", ":", ";", "<", "=", ">", "?", "@",
    "A", "B", "C", "D", "E", "F", "G", "H", "I", "J", "K", "L", "M", "N", "O", "P", "Q",
    "R", "S", "T", "U", "V", "W", "X", "Y", "Z", "[", "\\", "]", "^", "_", "grave",
    "a", "b", "c", "d", "e", "f", "g", "h", "i", "j", "k", "l", "m", "n", "o", "p", "q",
    "r", "s", "t", "u", "v", "w", "x", "y", "z", "{", "|", "}", "~">>

\* the character code: of the tab, the form feed and the line terminators, and
\* of the printable characters by their place in the table
CharCode(c) ==
  CASE c = "\t" -> 9
    [] c = "\n" -> 10
    [] c = "\f" -> 12
    [] c = "\r" -> 13
    [] c = "U+2028" -> 8232
    [] c = "U+2029" -> 8233
    [] OTHER -> 31 + (CHOOSE i \in 1..Len(AsciiPrintable) : AsciiPrintable[i] = c)

IsDigit(c) == c \in {"0", "1", "2", "3", "4", "5", "6", "7", "8", "9"}

Drop(text, n) == SubSeq(text, n + 1, Len(text))

\* the number of digits the text begins with
RECURSIVE DigitsLen(_)
DigitsLen(text) ==
  IF text # <<>> /\ IsDigit(Head(text)) THEN 1 + DigitsLen(Tail(text)) ELSE 0

RECURSIVE DigitsValue(_)
DigitsValue(digits) ==
  IF digits = <<>> THEN 0
  ELSE 10 * DigitsValue(Front(digits)) + (CharCode(Last(digits)) - 48)

\* SyntaxCharacter of the pattern grammar
SyntaxCharacters == {"^", "$", "\\", ".", "*", "+", "?", "(", ")", "[", "]", "{", "}", "|"}

\* the characters that may follow a backslash under the unicode flag, among
\* those the combinators emit: syntax characters, "/", control and class letters
UnicodeEscapes ==
  SyntaxCharacters \cup {"/", "f", "n", "r", "t", "v", "d", "D", "s", "S", "w", "W",
                         "b", "B", "0"}

NoQuantifier == [len |-> 0, min |-> 0, max |-> 0, bounded |-> FALSE]

\* the quantifier {n}, {n,} or {n,m} the text begins with; len = 0 when the
\* text, which begins with "{", does not begin with one
BracedQuantifier(text) ==
  LET n1 == DigitsLen(Drop(text, 1))
      after1 == Drop(text, 1 + n1)
      min == DigitsValue(SubSeq(text, 2, 1 + n1))
  IN IF n1 = 0 \/ after1 = <<>> THEN NoQuantifier
     ELSE IF Head(after1) = "}"
       THEN [len |-> n1 + 2, min |-> min, max |-> min, bounded |-> TRUE]
     ELSE IF Head(after1) # "," THEN NoQuantifier
     ELSE LET n2 == DigitsLen(Tail(after1))
              after2 == Drop(after1, 1 + n2)
          IN IF after2 = <<>> \/ Head(after2) # "}" THEN NoQuantifier
             ELSE IF n2 = 0
               THEN [len |-> n1 + 3, min |-> min, max |-> min, bounded |-> FALSE]
             ELSE [len |-> n1 + n2 + 3, min |-> min,
                   max |-> DigitsValue(SubSeq(after1, 2, 1 + n2)), bounded |-> TRUE]

\* the position of the "]" that closes the class whose content starts at i;
\* 0 when the class is not closed
RECURSIVE ClassEnd(_, _)
ClassEnd(text, i) ==
  IF i > Len(text) THEN 0
  ELSE IF text[i] = "\\" THEN ClassEnd(text, i + 2)
  ELSE IF text[i] = "]" THEN i
  ELSE ClassEnd(text, i + 1)

ClassAtomLen(text) == IF Head(text) = "\\" THEN 2 ELSE 1

\* the class atom the text begins with: a character with its code, a set
\* (\d, \w, \s and their complements) or, under the unicode flag, an escape
\* that is not allowed
ClassAtom(text, u) ==
  IF Head(text) # "\\" THEN [kind |-> "char", code |-> CharCode(Head(text))]
  ELSE LET x == text[2]
       IN IF x \in {"d", "D", "s", "S", "w", "W"} THEN [kind |-> "set", code |-> 0]
          ELSE IF x = "b" THEN [kind |-> "char", code |-> 8]
          ELSE IF x = "t" THEN [kind |-> "char", code |-> 9]
          ELSE IF x = "n" THEN [kind |-> "char", code |-> 10]
          ELSE IF x = "v" THEN [kind |-> "char", code |-> 11]
          ELSE IF x = "f" THEN [kind |-> "char", code |-> 12]
          ELSE IF x = "r" THEN [kind |-> "char", code |-> 13]
          ELSE IF x = "0" THEN [kind |-> "char", code |-> 0]
          ELSE IF u /\ x \notin (SyntaxCharacters \cup {"/", "-"})
            THEN [kind |-> "bad", code |-> 0]
          ELSE [kind |-> "char", code |-> CharCode(x)]

\* the content of a character class is well formed: every range a-b has
\* code(a) <= code(b); a set as an end of a range is an error under the
\* unicode flag and makes the "-" a literal without it
RECURSIVE ClassRangesOK(_, _)
ClassRangesOK(text, u) ==
  IF text = <<>> THEN TRUE
  ELSE LET a == ClassAtom(text, u)
           rest == Drop(text, ClassAtomLen(text))
       IN IF a.kind = "bad" THEN FALSE
          ELSE IF Len(rest) >= 2 /\ Head(rest) = "-"
            THEN LET b == ClassAtom(Tail(rest), u)
                     after == Drop(rest, 1 + ClassAtomLen(Tail(rest)))
                 IN IF b.kind = "bad" THEN FALSE
                    ELSE IF a.kind = "set" \/ b.kind = "set"
                      THEN ~u /\ ClassRangesOK(after, u)
                    ELSE a.code <= b.code /\ ClassRangesOK(after, u)
          ELSE ClassRangesOK(rest, u)

\* the group the text, which begins with "(", opens: a capturing or "(?:"
\* group, a lookahead "(?=" "(?!" or a lookbehind "(?<=" "(?<!"; len = 0 for
\* any other "(?" (the combinators emit no named group)
GroupOpen(text) ==
  IF Len(text) >= 2 /\ text[2] = "?"
    THEN IF Len(text) >= 3 /\ text[3] = ":" THEN [len |-> 3, kind |-> "group"]
         ELSE IF Len(text) >= 3 /\ text[3] \in {"=", "!"} THEN [len |-> 3, kind |-> "ahead"]
         ELSE IF Len(text) >= 4 /\ text[3] = "<" /\ text[4] \in {"=", "!"}
           THEN [len |-> 4, kind |-> "behind"]
         ELSE [len |-> 0, kind |-> "invalid"]
  ELSE [len |-> 1, kind |-> "group"]

\* the RegExp constructor's parse of a pattern: `open` is the stack of the groups
\* that are open and `prev` what came last: "none" (nothing a quantifier can
\* repeat), "atom", "quantifier" (a "?" may still make it lazy) or "lazy".
\* Without the unicode flag "]", "{" and "}" may stand for themselves, any
\* character may be escaped and a lookahead may be repeated.
RECURSIVE Accepts(_, _, _, _)
Accepts(text, u, open, prev) ==
  IF text = <<>> THEN open = <<>>
  ELSE LET c == Head(text)
       IN IF c = "\\"
            THEN /\ Len(text) >= 2
                 /\ u => text[2] \in UnicodeEscapes
                 /\ Accepts(Drop(text, 2), u, open,
                            IF text[2] \in {"b", "B"} THEN "none" ELSE "atom")
          ELSE IF c = "["
            THEN LET end == ClassEnd(text, 2)
                     content == SubSeq(text, IF text[2] = "^" THEN 3 ELSE 2, end - 1)
                 IN /\ end # 0
                    /\ ClassRangesOK(content, u)
                    /\ Accepts(Drop(text, end), u, open, "atom")
          ELSE IF c = "("
            THEN LET g == GroupOpen(text)
                 IN /\ g.len # 0
                    /\ Accepts(Drop(text, g.len), u, Append(open, g.kind), "none")
          ELSE IF c = ")"
            THEN /\ open # <<>>
                 /\ Accepts(Tail(text), u, Front(open),
                            IF Last(open) = "behind" \/ (Last(open) = "ahead" /\ u)
                              THEN "none" ELSE "atom")
          ELSE IF c \in {"|", "^", "$"} THEN Accepts(Tail(text), u, open, "none")
          ELSE IF c \in {"*", "+"}
            THEN prev = "atom" /\ Accepts(Tail(text), u, open, "quantifier")
          ELSE IF c = "?"
            THEN /\ prev \in {"atom", "quantifier"}
                 /\ Accepts(Tail(text), u, open,
                            IF prev = "atom" THEN "quantifier" ELSE "lazy")
          ELSE IF c = "{"
            THEN LET q == BracedQuantifier(text)
                 IN IF q.len = 0 THEN ~u /\ Accepts(Tail(text), u, open, "atom")
                    ELSE /\ prev = "atom"
                         /\ ~(q.bounded /\ q.min > q.max)
                         /\ Accepts(Drop(text, q.len), u, open, "quantifier")
          ELSE IF c \in {"]", "}"} THEN ~u /\ Accepts(Tail(text), u, open, "atom")
          ELSE Accepts(Tail(text), u, open, "atom")

\* the pattern is one the RegExp constructor takes with these flags
RegExpAccepts(pattern, flags) == Accepts(pattern, InText("u", flags), <<>>, "none")

\* the SyntaxError the RegExp constructor throws
SyntaxError == [tag |-> "SyntaxError"]

\* what a caller of toRegexString gets when toRegex has thrown
SyntaxErrorThrown == <<"SyntaxError">>

\* a constructor that takes every pattern
NewRegExp_Lenient(pattern, flags) ==
  [tag |-> "RegExp", source |-> RegExpSource(pattern), flags |-> RegExpFlags(flags)]

\* new RegExp(pattern, flags)
NewRegExp(pattern, flags) ==
  IF RegExpAccepts(pattern, flags)
    THEN [tag |-> "RegExp", source |-> RegExpSource(pattern), flags |-> RegExpFlags(flags)]
  ELSE SyntaxError

\* new RegExp(expression.pattern, toFlags(expression.flags))
toRegex(wa) ==
  LET expression == Run(wa, monoidExpressionEmpty)
      flags == toFlags(expression.flags)
  IN NewRegExp(expression.pattern, flags)

\* `${toRegex(builder)}`; the SyntaxError of toRegex passes through
toRegexString(wa) ==
  LET regex == toRegex(wa)
  IN IF regex = SyntaxError THEN SyntaxErrorThrown
     ELSE <<"/">> \o regex.source \o <<"/">> \o regex.flags

(***************************************************************************)
(* combinators                                                             *)
(***************************************************************************)
add(value, wa) == TMap("add", value, wa)

prefix(value, wa) == TMap("prefix", value, wa)

suffix(value, wa) == TMap("suffix", value, wa)

withMultiple(flag, wa) == getWithFlag("allowMultiple", flag, wa)

withCaseInsensitive(flag, wa) == getWithFlag("caseInsensitive", flag, wa)

withLineByLine(flag, wa) == getWithFlag("lineByLine", flag, wa)

withSingleLine(flag, wa) == getWithFlag("singleLine", flag, wa)

withSticky(flag, wa) == getWithFlag("sticky", flag, wa)

withUnicode(flag, wa) == getWithFlag("unicode", flag, wa)

allowMultiple(wa) == CExtend(wa, "allowMultiple", TRUE)

caseInsensitive(wa) == CExtend(wa, "caseInsensitive", TRUE)

lineByLine(wa) == CExtend(wa, "lineByLine", TRUE)

singleLine(wa) == CExtend(wa, "singleLine", TRUE)

sticky(wa) == CExtend(wa, "sticky", TRUE)

unicode(wa) == CExtend(wa, "unicode", TRUE)

\* identity
compile == <<>>

startOfInput(wa) == add(<<"^">>, wa)

endOfInput(wa) == add(<<"$">>, wa)

string(value, wa) == add(<<"(", "?", ":">> \o sanitize(value) \o <<")">>, wa)

maybe(value, wa) == add(<<"(", "?", ":">> \o sanitize(value) \o <<")", "?">>, wa)

\* an alternation that does not wrap what came before
or_NoGroup(value, wa) == string(value, add(<<")", "|", "(", "?", ":">>, wa))

\* an alternation that opens the wrapping group and never closes it
or_NoSuffix(value, wa) ==
  string(value, add(<<")", "|", "(", "?", ":">>, prefix(<<"(", "?", ":">>, wa)))

\* flow(prefix(`(?:`), suffix(`)`), add(`)|(?:`), string(value))
or(value, wa) ==
  string(value, add(<<")", "|", "(", "?", ":">>, suffix(<<")">>, prefix(<<"(", "?", ":">>, wa))))

\* the pipe form made of the deprecated form
orExpression_Grouped(wa) == or(<<>>, wa)

orExpression(wa) == add(<<"|">>, wa)

anything(wa) == add(<<"(", "?", ":", ".", "*", ")">>, wa)

anythingBut(value, wa) ==
  add(<<"(", "?", ":", "[", "^">> \o sanitize(value) \o <<"]", "*", ")">>, wa)

something(wa) == add(<<"(", "?", ":", ".", "+", ")">>, wa)

somethingBut(value, wa) ==
  add(<<"(", "?", ":", "[", "^">> \o sanitize(value) \o <<"]", "+", ")">>, wa)

anyOf(value, wa) == add(<<"[">> \o sanitize(value) \o <<"]">>, wa)

not(value, wa) == add(<<"(", "?", "!">> \o sanitize(value) \o <<")">>, wa)

range(from, to, wa) == add(<<"[">> \o sanitize(from) \o <<"-">> \o sanitize(to) \o <<"]">>, wa)

lineBreak(wa) ==
  add(<<"(", "?", ":", "\\", "r", "\\", "n", "|", "\\", "r", "|", "\\", "n", ")">>, wa)

tab(wa) == add(<<"\\", "t">>, wa)

word(wa) == add(<<"\\", "w", "+">>, wa)

digit(wa) == add(<<"\\", "d">>, wa)

whitespace(wa) == add(<<"\\", "s">>, wa)

zeroOrMore(wa) == add(<<"*">>, wa)

zeroOrMoreLazy(wa) == add(<<"*", "?">>, wa)

oneOrMore(wa) == add(<<"+">>, wa)

oneOrMoreLazy(wa) == add(<<"+", "?">>, wa)

exactly(amount, wa) == add(<<"{">> \o NumberToString(amount) \o <<"}">>, wa)

atLeast(min, wa) == add(<<"{">> \o NumberToString(min) \o <<",", "}">>, wa)

\* the two bounds in the wrong order
between_Swapped(min, max, wa) ==
  add(<<"{">> \o NumberToString(max) \o <<",">> \o NumberToString(min) \o <<"}">>, wa)

between(min, max, wa) ==
  add(<<"{">> \o NumberToString(min) \o <<",">> \o NumberToString(max) \o <<"}">>, wa)

betweenLazy(min, max, wa) ==
  add(<<"{">> \o NumberToString(min) \o <<",">> \o NumberToString(max) \o <<"}", "?">>, wa)

beginCapture(wa) == add(<<"(">>, wa)

endCapture(wa) == add(<<")">>, wa)

(***************************************************************************)
(* pipe(a, f1, ..., fn) = fn(... f1(a)): the builder made by a list of     *)
(* combinator calls, each a record [op, args]                              *)
(***************************************************************************)
ApplyCall(c, wa) ==
  CASE c.op = "allowMultiple" -> allowMultiple(wa)
    [] c.op = "caseInsensitive" -> caseInsensitive(wa)
    [] c.op = "lineByLine" -> lineByLine(wa)
    [] c.op = "singleLine" -> singleLine(wa)
    [] c.op = "sticky" -> sticky(wa)
    [] c.op = "unicode" -> unicode(wa)
    [] c.op = "startOfInput" -> startOfInput(wa)
    [] c.op = "endOfInput" -> endOfInput(wa)
    [] c.op = "string" -> string(c.args[1], wa)
    [] c.op = "maybe" -> maybe(c.args[1], wa)
    [] c.op = "or" -> or(c.args[1], wa)
    [] c.op = "orExpression" -> orExpression(wa)
    [] c.op = "anything" -> anything(wa)
    [] c.op = "anythingBut" -> anythingBut(c.args[1], wa)
    [] c.op = "something" -> something(wa)
    [] c.op = "somethingBut" -> somethingBut(c.args[1], wa)
    [] c.op = "anyOf" -> anyOf(c.args[1], wa)
    [] c.op = "not" -> not(c.args[1], wa)
    [] c.op = "range" -> range(c.args[1], c.args[2], wa)
    [] c.op = "lineBreak" -> lineBreak(wa)
    [] c.op = "tab" -> tab(wa)
    [] c.op = "word" -> word(wa)
    [] c.op = "digit" -> digit(wa)
    [] c.op = "whitespace" -> whitespace(wa)
    [] c.op = "zeroOrMore" -> zeroOrMore(wa)
    [] c.op = "zeroOrMoreLazy" -> zeroOrMoreLazy(wa)
    [] c.op = "oneOrMore" -> oneOrMore(wa)
    [] c.op = "oneOrMoreLazy" -> oneOrMoreLazy(wa)
    [] c.op = "exactly" -> exactly(c.args[1], wa)
    [] c.op = "atLeast" -> atLeast(c.args[1], wa)
    [] c.op = "between" -> between(c.args[1], c.args[2], wa)
    [] c.op = "betweenLazy" -> betweenLazy(c.args[1], c.args[2], wa)
    [] c.op = "beginCapture" -> beginCapture(wa)
    [] c.op = "endCapture" -> endCapture(wa)
    [] c.op = "add" -> add(c.args[1], wa)
    [] c.op = "prefix" -> prefix(c.args[1], wa)
    [] c.op = "suffix" -> suffix(c.args[1], wa)

RECURSIVE PipeFrom(_, _)
PipeFrom(wa, cs) ==
  IF cs = <<>> THEN wa ELSE ApplyCall(Last(cs), PipeFrom(wa, Front(cs)))

PipeOf(cs) == PipeFrom(compile, cs)

(***************************************************************************)
(* The pipe: pipe(compile, c1, c2, ...).  `builder` is the builder the     *)
(* pipe has made so far and `calls` the combinator calls that made it.     *)
(***************************************************************************)
\* string arguments: the empty text, a plain character, a text with a metacharacter
Values == {<<>>, <<"(", "a">>, <<".", "a">>}

\* numeric arguments: one digit, two digits, and min > max among the pairs
Amounts == {2, 10}

NoValue == <<>>

Some(v) == <<v>>

Init ==
  /\ builder = compile
  /\ calls = <<>>
  /\ arg = NoValue
  /\ ret = NoValue

\* the pipe takes one more combinator
CanCall == Len(calls) < MaxCalls

\* the call op(args) is the last stage of the pipe
Called(op, args) ==
  /\ calls' = Append(calls, [op |-> op, args |-> args])
  /\ UNCHANGED <<arg, ret>>

AllowMultiple ==
  /\ CanCall
  /\ builder' = allowMultiple(builder)
  /\ Called("allowMultiple", <<>>)

CaseInsensitive ==
  /\ CanCall
  /\ builder' = caseInsensitive(builder)
  /\ Called("caseInsensitive", <<>>)

LineByLine ==
  /\ CanCall
  /\ builder' = lineByLine(builder)
  /\ Called("lineByLine", <<>>)

SingleLine ==
  /\ CanCall
  /\ builder' = singleLine(builder)
  /\ Called("singleLine", <<>>)

Sticky ==
  /\ CanCall
  /\ builder' = sticky(builder)
  /\ Called("sticky", <<>>)

Unicode ==
  /\ CanCall
  /\ builder' = unicode(builder)
  /\ Called("unicode", <<>>)

StartOfInput ==
  /\ CanCall
  /\ builder' = startOfInput(builder)
  /\ Called("startOfInput", <<>>)

EndOfInput ==
  /\ CanCall
  /\ builder' = endOfInput(builder)
  /\ Called("endOfInput", <<>>)

OrExpression ==
  /\ CanCall
  /\ builder' = orExpression(builder)
  /\ Called("orExpression", <<>>)

Anything ==
  /\ CanCall
  /\ builder' = anything(builder)
  /\ Called("anything", <<>>)

Something ==
  /\ CanCall
  /\ builder' = something(builder)
  /\ Called("something", <<>>)

LineBreak ==
  /\ CanCall
  /\ builder' = lineBreak(builder)
  /\ Called("lineBreak", <<>>)

Tab ==
  /\ CanCall
  /\ builder' = tab(builder)
  /\ Called("tab", <<>>)

Word ==
  /\ CanCall
  /\ builder' = word(builder)
  /\ Called("word", <<>>)

Digit ==
  /\ CanCall
  /\ builder' = digit(builder)
  /\ Called("digit", <<>>)

Whitespace ==
  /\ CanCall
  /\ builder' = whitespace(builder)
  /\ Called("whitespace", <<>>)

ZeroOrMore ==
  /\ CanCall
  /\ builder' = zeroOrMore(builder)
  /\ Called("zeroOrMore", <<>>)

ZeroOrMoreLazy ==
  /\ CanCall
  /\ builder' = zeroOrMoreLazy(builder)
  /\ Called("zeroOrMoreLazy", <<>>)

OneOrMore ==
  /\ CanCall
  /\ builder' = oneOrMore(builder)
  /\ Called("oneOrMore", <<>>)

OneOrMoreLazy ==
  /\ CanCall
  /\ builder' = oneOrMoreLazy(builder)
  /\ Called("oneOrMoreLazy", <<>>)

BeginCapture ==
  /\ CanCall
  /\ builder' = beginCapture(builder)
  /\ Called("beginCapture", <<>>)

EndCapture ==
  /\ CanCall
  /\ builder' = endCapture(builder)
  /\ Called("endCapture", <<>>)

String ==
  \E value \in Values :
    /\ CanCall
    /\ builder' = string(value, builder)
    /\ Called("string", <<value>>)

Maybe ==
  \E value \in Values :
    /\ CanCall
    /\ builder' = maybe(value, builder)
    /\ Called("maybe", <<value>>)

Or ==
  \E value \in Values :
    /\ CanCall
    /\ builder' = or(value, builder)
    /\ Called("or", <<value>>)

AnythingBut ==
  \E value \in Values :
    /\ CanCall
    /\ builder' = anythingBut(value, builder)
    /\ Called("anythingBut", <<value>>)

SomethingBut ==
  \E value \in Values :
    /\ CanCall
    /\ builder' = somethingBut(value, builder)
    /\ Called("somethingBut", <<value>>)

AnyOf ==
  \E value \in Values :
    /\ CanCall
    /\ builder' = anyOf(value, builder)
    /\ Called("anyOf", <<value>>)

Not ==
  \E value \in Values :
    /\ CanCall
    /\ builder' = not(value, builder)
    /\ Called("not", <<value>>)

Range ==
  \E from \in Values, to \in Values :
    /\ CanCall
    /\ builder' = range(from, to, builder)
    /\ Called("range", <<from, to>>)

Exactly ==
  \E amount \in Amounts :
    /\ CanCall
    /\ builder' = exactly(amount, builder)
    /\ Called("exactly", <<amount>>)

AtLeast ==
  \E min \in Amounts :
    /\ CanCall
    /\ builder' = atLeast(min, builder)
    /\ Called("atLeast", <<min>>)

Between ==
  \E min \in Amounts, max \in Amounts :
    /\ CanCall
    /\ builder' = between(min, max, builder)
    /\ Called("between", <<min, max>>)

BetweenLazy ==
  \E min \in Amounts, max \in Amounts :
    /\ CanCall
    /\ builder' = betweenLazy(min, max, builder)
    /\ Called("betweenLazy", <<min, max>>)

Next ==
  \/ AllowMultiple
  \/ CaseInsensitive
  \/ LineByLine
  \/ SingleLine
  \/ Sticky
  \/ Unicode
  \/ StartOfInput
  \/ EndOfInput
  \/ OrExpression
  \/ Anything
  \/ Something
  \/ LineBreak
  \/ Tab
  \/ Word
  \/ Digit
  \/ Whitespace
  \/ ZeroOrMore
  \/ ZeroOrMoreLazy
  \/ OneOrMore
  \/ OneOrMoreLazy
  \/ BeginCapture
  \/ EndCapture
  \/ String
  \/ Maybe
  \/ Or
  \/ AnythingBut
  \/ SomethingBut
  \/ AnyOf
  \/ Not
  \/ Range
  \/ Exactly
  \/ AtLeast
  \/ Between
  \/ BetweenLazy

Spec == Init /\ [][Next]_vars

\* the pipes made of the flag combinators, a literal and the two alternations
NextCore ==
  \/ AllowMultiple
  \/ CaseInsensitive
  \/ LineByLine
  \/ SingleLine
  \/ Sticky
  \/ Unicode
  \/ String
  \/ Or
  \/ OrExpression

SpecCore == Init /\ [][NextCore]_vars

(***************************************************************************)
(* The primitives add, prefix and suffix on their own (they are not        *)
(* exported; the combinators are made of them).                            *)
(***************************************************************************)
FragmentAlphabet == {"a", "(", "|"}

Fragments == StringsUpTo(FragmentAlphabet, MaxStrLen)

CanStep == Len(calls) < MaxPrims

Add ==
  \E value \in Fragments :
    /\ CanStep
    /\ builder' = add(value, builder)
    /\ Called("add", <<value>>)

Prefix ==
  \E value \in Fragments :
    /\ CanStep
    /\ builder' = prefix(value, builder)
    /\ Called("prefix", <<value>>)

Suffix ==
  \E value \in Fragments :
    /\ CanStep
    /\ builder' = suffix(value, builder)
    /\ Called("suffix", <<value>>)

NextPrim ==
  \/ Add
  \/ Prefix
  \/ Suffix

SpecPrim == Init /\ [][NextPrim]_vars

(***************************************************************************)
(* sanitize on its own: `arg` is the text it is given, `ret` what it       *)
(* returns.                                                                *)
(***************************************************************************)
\* the sixteen metacharacters and three characters that are none
SanitizeAlphabet ==
  {"]", ".", "|", "*", "?", "+", "(", ")", "{", "}", "^", "$", "\\", ":", "=", "[",
   "a", "/", "-"}

SanitizeInputs == StringsUpTo(SanitizeAlphabet, MaxSanitizeLen)

InitSanitize ==
  /\ builder = compile
  /\ calls = <<>>
  /\ arg \in {Some(value) : value \in SanitizeInputs}
  /\ ret = NoValue

Sanitize ==
  /\ ret = NoValue
  /\ ret' = Some(sanitize(arg[1]))
  /\ UNCHANGED <<builder, calls, arg>>

NextSanitize ==
  \/ Sanitize

SpecSanitize == InitSanitize /\ [][NextSanitize]_vars

(***************************************************************************)
(* toFlags on its own: `arg` is the Flags it is given, `ret` the flags     *)
(* text toRegex hands to the RegExp constructor.                           *)
(***************************************************************************)
AllFlags ==
  [allowMultiple : BOOLEAN, caseInsensitive : BOOLEAN, lineByLine : BOOLEAN,
   singleLine : BOOLEAN, sticky : BOOLEAN, unicode : BOOLEAN]

InitFlags ==
  /\ builder = compile
  /\ calls = <<>>
  /\ arg \in {Some(flags) : flags \in AllFlags}
  /\ ret = NoValue

ToFlags ==
  /\ ret = NoValue
  /\ ret' = Some(toFlags(arg[1]))
  /\ UNCHANGED <<builder, calls, arg>>

NextToFlags ==
  \/ ToFlags

SpecToFlags == InitFlags /\ [][NextToFlags]_vars

(***************************************************************************)
(* The end of a pipe: a builder the pipe has made is handed to a           *)
(* destructor or to one of the six with<Flag> pipeables.  `arg` records    *)
(* the call (its name, its builder and its boolean, FALSE for the          *)
(* destructors) and `ret` what it returned or threw.                       *)
(***************************************************************************)
\* literals with a slash, with a line feed, with a character that sanitize
\* escapes and the unicode flag does not let be escaped, and with a parenthesis
Literals == {<<"/">>, <<"\n">>, <<":">>, <<"(", "a">>}

Literal ==
  \E value \in Literals :
    /\ CanCall
    /\ builder' = string(value, builder)
    /\ Called("string", <<value>>)

ToRegex ==
  /\ ret = NoValue
  /\ arg' = Some([op |-> "toRegex", flag |-> FALSE, builder |-> builder])
  /\ ret' = Some(toRegex(builder))
  /\ UNCHANGED <<builder, calls>>

ToRegexString ==
  /\ ret = NoValue
  /\ arg' = Some([op |-> "toRegexString", flag |-> FALSE, builder |-> builder])
  /\ ret' = Some(toRegexString(builder))
  /\ UNCHANGED <<builder, calls>>

WithMultiple ==
  \E flag \in BOOLEAN :
    /\ ret = NoValue
    /\ arg' = Some([op |-> "withMultiple", flag |-> flag, builder |-> builder])
    /\ ret' = Some(withMultiple(flag, builder))
    /\ UNCHANGED <<builder, calls>>

WithCaseInsensitive ==
  \E flag \in BOOLEAN :
    /\ ret = NoValue
    /\ arg' = Some([op |-> "withCaseInsensitive", flag |-> flag, builder |-> builder])
    /\ ret' = Some(withCaseInsensitive(flag, builder))
    /\ UNCHANGED <<builder, calls>>

WithLineByLine ==
  \E flag \in BOOLEAN :
    /\ ret = NoValue
    /\ arg' = Some([op |-> "withLineByLine", flag |-> flag, builder |-> builder])
    /\ ret' = Some(withLineByLine(flag, builder))
    /\ UNCHANGED <<builder, calls>>

WithSingleLine ==
  \E flag \in BOOLEAN :
    /\ ret = NoValue
    /\ arg' = Some([op |-> "withSingleLine", flag |-> flag, builder |-> builder])
    /\ ret' = Some(withSingleLine(flag, builder))
    /\ UNCHANGED <<builder, calls>>

WithSticky ==
  \E flag \in BOOLEAN :
    /\ ret = NoValue
    /\ arg' = Some([op |-> "withSticky", flag |-> flag, builder |-> builder])
    /\ ret' = Some(withSticky(flag, builder))
    /\ UNCHANGED <<builder, calls>>

WithUnicode ==
  \E flag \in BOOLEAN :
    /\ ret = NoValue
    /\ arg' = Some([op |-> "withUnicode", flag |-> flag, builder |-> builder])
    /\ ret' = Some(withUnicode(flag, builder))
    /\ UNCHANGED <<builder, calls>>

NextDestruct ==
  \/ Sticky
  \/ Unicode
  \/ BeginCapture
  \/ EndCapture
  \/ ZeroOrMore
  \/ Between
  \/ Literal
  \/ ToRegex
  \/ ToRegexString
  \/ WithMultiple
  \/ WithCaseInsensitive
  \/ WithLineByLine
  \/ WithSingleLine
  \/ WithSticky
  \/ WithUnicode

SpecDestruct == Init /\ [][NextDestruct]_vars

(***************************************************************************)
(* Properties                                                              *)
(***************************************************************************)
FlagCombinators ==
  {"allowMultiple", "caseInsensitive", "lineByLine", "singleLine", "sticky", "unicode"}

FlagCall(f) == [op |-> f, args |-> <<>>]

\* the four text fields of an Expression
TextOf(e) == [prefix |-> e.prefix, source |-> e.source, suffix |-> e.suffix, pattern |-> e.pattern]

InsertAt(cs, i, c) == SubSeq(cs, 1, i) \o <<c>> \o SubSeq(cs, i + 1, Len(cs))

\* the builder is the pipe of the calls made
BuilderIsPipe == builder = PipeOf(calls)

\* C1: whatever exported combinators made the builder, the Expression it
\* evaluates to from the empty Expression has pattern = prefix ++ source ++ suffix
C1_PatternIsDerived ==
  LET e == Extract(builder) IN e.pattern = e.prefix \o e.source \o e.suffix

\* a builder wrapped by `or`: prefix, source and suffix are all non-empty
C1_Witness ==
  /\ Len(calls) = 2
  /\ calls[1].op = "string"
  /\ calls[2].op = "or"
  /\ Extract(builder).prefix # <<>>
  /\ Extract(builder).suffix # <<>>

\* C2: a flag combinator inserted at any position of the pipe leaves prefix,
\* source, suffix and pattern as they are without it; of the flags only the
\* inserted one may differ, and it is set
C2_FlagsNeverAlterText ==
  \A i \in 0..Len(calls), f \in FlagCombinators :
    LET without == Extract(builder)
        with == Extract(PipeOf(InsertAt(calls, i, FlagCall(f))))
    IN /\ TextOf(with) = TextOf(without)
       /\ with.flags = [without.flags EXCEPT ![f] = TRUE]

\* a pipe with a text combinator and then `or`: the positions before the
\* first, between the two and after the last all exist
C2_Witness ==
  /\ Len(calls) = 2
  /\ calls[1].op = "string"
  /\ calls[1].args[1] # <<>>
  /\ calls[2].op = "or"

\* C3: two flag combinators applied in either order to a builder evaluate to the
\* same Expression and render the same flags; caseInsensitive and allowMultiple
\* on a builder without flags render "gi" in both orders
C3_FlagsCommute ==
  /\ \A f \in FlagCombinators, g \in FlagCombinators :
       LET fg == ApplyCall(FlagCall(f), ApplyCall(FlagCall(g), builder))
           gf == ApplyCall(FlagCall(g), ApplyCall(FlagCall(f), builder))
       IN /\ Extract(fg) = Extract(gf)
          /\ toRegex(fg).flags = toRegex(gf).flags
  /\ Extract(builder).flags = monoidFlagsEmpty =>
       /\ toRegex(allowMultiple(caseInsensitive(builder))).flags = <<"g", "i">>
       /\ toRegex(caseInsensitive(allowMultiple(builder))).flags = <<"g", "i">>
  /\ (Len(calls) >= 2 /\ calls[Len(calls)].op \in FlagCombinators
        /\ calls[Len(calls) - 1].op \in FlagCombinators) =>
       Extract(builder) =
         Extract(PipeOf(SubSeq(calls, 1, Len(calls) - 2)
                          \o <<calls[Len(calls)], calls[Len(calls) - 1]>>))

\* two different flag combinators have been applied one after the other
C3_Witness ==
  /\ Len(calls) = 2
  /\ calls[1].op = "caseInsensitive"
  /\ calls[2].op = "allowMultiple"
  /\ toRegex(builder).flags = <<"g", "i">>

\* C4: a flag combinator applied twice evaluates to the same Expression (all
\* five fields) as applied once and renders the same string
C4_FlagsIdempotent ==
  /\ \A f \in FlagCombinators :
       LET once == ApplyCall(FlagCall(f), builder)
           twice == ApplyCall(FlagCall(f), once)
       IN /\ Extract(twice) = Extract(once)
          /\ toRegexString(twice) = toRegexString(once)
  /\ (Len(calls) >= 2 /\ calls[Len(calls)].op \in FlagCombinators
        /\ calls[Len(calls) - 1] = calls[Len(calls)]) =>
       /\ Extract(builder) = Extract(PipeOf(Front(calls)))
       /\ toRegexString(builder) = toRegexString(PipeOf(Front(calls)))

\* the same flag combinator has been applied twice in a row
C4_Witness ==
  /\ Len(calls) = 2
  /\ calls[1].op = "sticky"
  /\ calls[2].op = "sticky"
  /\ Extract(builder).flags.sticky

\* the texts of the examples
foo == <<"f", "o", "o">>

bar == <<"b", "a", "r">>

\* the concatenation of the codes of the true flags, in the order of `order`
RECURSIVE FlagsTextIn(_, _)
FlagsTextIn(order, flags) ==
  IF order = <<>> THEN <<>>
  ELSE (IF flags[Head(order)[1]] THEN <<Head(order)[2]>> ELSE <<>>)
       \o FlagsTextIn(Tail(order), flags)

\* g, i, m, s, u, y
ClaimedFlagOrder ==
  <<<<"allowMultiple", "g">>, <<"caseInsensitive", "i">>, <<"lineByLine", "m">>,
    <<"singleLine", "s">>, <<"unicode", "u">>, <<"sticky", "y">>>>

\* g, i, m, s, y, u
SortedFlagOrder ==
  <<<<"allowMultiple", "g">>, <<"caseInsensitive", "i">>, <<"lineByLine", "m">>,
    <<"singleLine", "s">>, <<"sticky", "y">>, <<"unicode", "u">>>>

\* C5 as stated: for every Flags the text toFlags computes is the codes of the
\* true flags in the order g, i, m, s, u (unicode), y (sticky)
C5_Original == ret # NoValue => ret[1] = FlagsTextIn(ClaimedFlagOrder, arg[1])

\* C5 as amended: for every Flags the text toFlags computes is the codes of
\* exactly the true flags in the order g, i, m, s, y (sticky), u (unicode)
C5_FlagsTextSorted == ret # NoValue => ret[1] = FlagsTextIn(SortedFlagOrder, arg[1])

\* toFlags has been applied to Flags with sticky and unicode both set
C5_Witness ==
  /\ ret # NoValue
  /\ arg[1].sticky
  /\ arg[1].unicode
  /\ arg[1].allowMultiple

\* the example of C6: compile, string("foo"), or("bar")
C6_Example ==
  toRegexString(or(bar, string(foo, compile)))
    = <<"/", "(", "?", ":", "(", "?", ":", "f", "o", "o", ")", ")", "|",
        "(", "?", ":", "(", "?", ":", "b", "a", "r", ")", ")", "/">>

\* C6: or(v) on a builder that evaluates to prefix p, source s and suffix q
\* gives prefix p ++ "(?:", suffix ")" ++ q, source s ++ ")|(?:" ++ "(?:" ++
\* sanitize(v) ++ ")" and pattern = prefix ++ source ++ suffix; compile,
\* string("foo"), or("bar") renders /(?:(?:foo))|(?:(?:bar))/
C6_OrWraps ==
  /\ (calls # <<>> /\ Last(calls).op = "or") =>
       LET before == Extract(PipeOf(Front(calls)))
           after == Extract(builder)
           v == Last(calls).args[1]
       IN /\ after.prefix = before.prefix \o <<"(", "?", ":">>
          /\ after.suffix = <<")">> \o before.suffix
          /\ after.source = before.source \o <<")", "|", "(", "?", ":">>
                              \o <<"(", "?", ":">> \o sanitize(v) \o <<")">>
          /\ after.pattern = after.prefix \o after.source \o after.suffix
  /\ C6_Example

\* `or` has been applied to a builder whose prefix and suffix are not empty
C6_Witness ==
  /\ Len(calls) = 2
  /\ calls[1].op = "or"
  /\ calls[2].op = "or"
  /\ calls[2].args[1] = <<".", "a">>

\* the example of C7: range(a,z), range(A,Z), orExpression, range(A,Z),
\* exactly(2), range(a,z)
C7_Example ==
  toRegexString(range(<<"a">>, <<"z">>, exactly(2, range(<<"A">>, <<"Z">>,
    orExpression(range(<<"A">>, <<"Z">>, range(<<"a">>, <<"z">>, compile)))))))
    = <<"/", "[", "a", "-", "z", "]", "[", "A", "-", "Z", "]", "|",
        "[", "A", "-", "Z", "]", "{", "2", "}", "[", "a", "-", "z", "]", "/">>

\* C7: orExpression appends the one character "|" to the source and leaves
\* prefix, suffix and flags as they were; the example renders
\* /[a-z][A-Z]|[A-Z]{2}[a-z]/; on the same builder `or` gives another prefix,
\* another suffix and another source
C7_PipeAlternation ==
  /\ (calls # <<>> /\ Last(calls).op = "orExpression") =>
       LET before == Extract(PipeOf(Front(calls)))
           after == Extract(builder)
       IN /\ after.source = before.source \o <<"|">>
          /\ after.prefix = before.prefix
          /\ after.suffix = before.suffix
          /\ after.flags = before.flags
          /\ after.pattern = before.prefix \o before.source \o <<"|">> \o before.suffix
  /\ C7_Example
  /\ \A v \in Values :
       LET piped == Extract(orExpression(builder))
           wrapped == Extract(or(v, builder))
       IN /\ piped.prefix # wrapped.prefix
          /\ piped.suffix # wrapped.suffix
          /\ piped.source # wrapped.source

\* orExpression has been applied to a builder with a source, a prefix and a suffix
C7_Witness ==
  /\ Len(calls) = 2
  /\ calls[1].op = "or"
  /\ calls[2].op = "orExpression"
  /\ Extract(builder).suffix = <<")">>

\* ] . | * ? + ( ) { } ^ $ \ : = [
ClaimedMetaCharacters ==
  {"]", ".", "|", "*", "?", "+", "(", ")", "{", "}", "^", "$", "\\", ":", "=", "["}

\* one backslash before each metacharacter, every other character copied in order
RECURSIVE Escaped(_)
Escaped(text) ==
  IF text = <<>> THEN <<>>
  ELSE (IF Head(text) \in ClaimedMetaCharacters
        THEN <<"\\", Head(text)>>
        ELSE <<Head(text)>>) \o Escaped(Tail(text))

HasMetaCharacter(text) == \E i \in 1..Len(text) : text[i] \in ClaimedMetaCharacters

\* C8: sanitize returns its input with one backslash before each of
\* ] . | * ? + ( ) { } ^ $ \ : = [ and every other character copied in order;
\* the empty text gives the empty text, a text without these gives itself
C8_SanitizeEscapes ==
  ret # NoValue =>
    /\ ret[1] = Escaped(arg[1])
    /\ arg[1] = <<>> => ret[1] = <<>>
    /\ ~HasMetaCharacter(arg[1]) => ret[1] = arg[1]
    /\ Len(ret[1]) = Len(arg[1]) + Cardinality({i \in 1..Len(arg[1]) : arg[1][i] \in ClaimedMetaCharacters})

\* sanitize has been applied to a text with a metacharacter and a plain character
C8_Witness ==
  /\ ret # NoValue
  /\ arg[1] = <<"=", "a">>
  /\ ret[1] = <<"\\", "=", "a">>

\* C9: add(a) and then add(b) evaluate to the same Expression (source, pattern,
\* prefix, suffix, flags) as the one add(a ++ b), on `compile` and on any builder
C9_AddConcatenates ==
  (Len(calls) >= 2 /\ calls[Len(calls)].op = "add" /\ calls[Len(calls) - 1].op = "add") =>
    LET a == calls[Len(calls) - 1].args[1]
        b == calls[Len(calls)].args[1]
        base == PipeOf(SubSeq(calls, 1, Len(calls) - 2))
    IN /\ Extract(builder) = Extract(add(a \o b, base))
       /\ Extract(add(b, add(a, compile))) = Extract(add(a \o b, compile))

\* two different non-empty fragments have been added one after the other to compile
C9_Witness ==
  /\ Len(calls) = 2
  /\ calls[1] = [op |-> "add", args |-> <<<<"a">>>>]
  /\ calls[2] = [op |-> "add", args |-> <<<<"(">>>>]
  /\ Extract(builder).source = <<"a", "(">>

\* the combinators C10 gives a template for
ClaimedTextCombinators ==
  {"string", "maybe", "anything", "something", "anythingBut", "somethingBut", "anyOf",
   "not", "range", "startOfInput", "endOfInput", "exactly", "atLeast", "between",
   "betweenLazy", "zeroOrMore", "zeroOrMoreLazy", "oneOrMore", "oneOrMoreLazy",
   "beginCapture", "endCapture"}

\* the template C10 gives for a call
ClaimedFragment(c) ==
  CASE c.op = "string" -> <<"(", "?", ":">> \o sanitize(c.args[1]) \o <<")">>
    [] c.op = "maybe" -> <<"(", "?", ":">> \o sanitize(c.args[1]) \o <<")", "?">>
    [] c.op = "anything" -> <<"(", "?", ":", ".", "*", ")">>
    [] c.op = "something" -> <<"(", "?", ":", ".", "+", ")">>
    [] c.op = "anythingBut" -> <<"(", "?", ":", "[", "^">> \o sanitize(c.args[1]) \o <<"]", "*", ")">>
    [] c.op = "somethingBut" -> <<"(", "?", ":", "[", "^">> \o sanitize(c.args[1]) \o <<"]", "+", ")">>
    [] c.op = "anyOf" -> <<"[">> \o sanitize(c.args[1]) \o <<"]">>
    [] c.op = "not" -> <<"(", "?", "!">> \o sanitize(c.args[1]) \o <<")">>
    [] c.op = "range" -> <<"[">> \o sanitize(c.args[1]) \o <<"-">> \o sanitize(c.args[2]) \o <<"]">>
    [] c.op = "startOfInput" -> <<"^">>
    [] c.op = "endOfInput" -> <<"$">>
    [] c.op = "exactly" -> <<"{">> \o NumberToString(c.args[1]) \o <<"}">>
    [] c.op = "atLeast" -> <<"{">> \o NumberToString(c.args[1]) \o <<",", "}">>
    [] c.op = "between" ->
         <<"{">> \o NumberToString(c.args[1]) \o <<",">> \o NumberToString(c.args[2]) \o <<"}">>
    [] c.op = "betweenLazy" ->
         <<"{">> \o NumberToString(c.args[1]) \o <<",">> \o NumberToString(c.args[2]) \o <<"}", "?">>
    [] c.op = "zeroOrMore" -> <<"*">>
    [] c.op = "zeroOrMoreLazy" -> <<"*", "?">>
    [] c.op = "oneOrMore" -> <<"+">>
    [] c.op = "oneOrMoreLazy" -> <<"+", "?">>
    [] c.op = "beginCapture" -> <<"(">>
    [] c.op = "endCapture" -> <<")">>

RECURSIVE ClaimedText(_)
ClaimedText(cs) ==
  IF cs = <<>> THEN <<>> ELSE ClaimedFragment(Head(cs)) \o ClaimedText(Tail(cs))

\* the examples of C10
C10_Examples ==
  /\ Extract(endCapture(string(foo, beginCapture(compile)))).pattern
       = <<"(", "(", "?", ":", "f", "o", "o", ")", ")">>
  /\ Extract(exactly(4, string(foo, compile))).pattern
       = <<"(", "?", ":", "f", "o", "o", ")", "{", "4", "}">>

\* C10: for a pipe of text-emitting combinators (no `or`) the source and the
\* pattern are the concatenation, in call order, of the template fragment of
\* each call; beginCapture, string("foo"), endCapture gives ((?:foo)) and
\* string("foo"), exactly(4) gives (?:foo){4}
C10_EmissionOrder ==
  /\ (\A i \in 1..Len(calls) : calls[i].op \in ClaimedTextCombinators) =>
       LET e == Extract(builder)
       IN /\ e.source = ClaimedText(calls)
          /\ e.pattern = ClaimedText(calls)
  /\ C10_Examples

\* two text combinators with different fragments have been piped
C10_Witness ==
  /\ Len(calls) = 2
  /\ calls[1] = [op |-> "anyOf", args |-> <<<<".", "a">>>>]
  /\ calls[2] = [op |-> "between", args |-> <<2, 10>>]
  /\ Extract(builder).pattern = <<"[", "\\", ".", "a", "]", "{", "2", ",", "1", "0", "}">>

\* the Expression before the last call of the pipe
BeforeLast == Extract(PipeOf(Front(calls)))

LastIs(op) == calls # <<>> /\ Last(calls).op = op

LastTwoAre(op) ==
  /\ Len(calls) >= 2
  /\ calls[Len(calls)].op = op
  /\ calls[Len(calls) - 1].op = op

\* C15: prefix(t) alone gives prefix' = e.prefix ++ t and pattern' = prefix' ++
\* e.source ++ e.suffix, suffix(t) alone gives suffix' = t ++ e.suffix and
\* pattern' = e.prefix ++ e.source ++ suffix', source and flags unchanged; after
\* the prefix texts p1, p2 the prefix ends with p1 ++ p2 and after the suffix
\* texts s1, s2 the suffix begins with s2 ++ s1
C15_WrappingKeepsPattern ==
  /\ LastIs("prefix") =>
       LET e == BeforeLast
           after == Extract(builder)
           t == Last(calls).args[1]
       IN /\ after.prefix = e.prefix \o t
          /\ after.pattern = after.prefix \o e.source \o e.suffix
          /\ after.source = e.source
          /\ after.flags = e.flags
  /\ LastIs("suffix") =>
       LET e == BeforeLast
           after == Extract(builder)
           t == Last(calls).args[1]
       IN /\ after.suffix = t \o e.suffix
          /\ after.pattern = e.prefix \o e.source \o after.suffix
          /\ after.source = e.source
          /\ after.flags = e.flags
  /\ LastTwoAre("prefix") =>
       LET e == Extract(PipeOf(SubSeq(calls, 1, Len(calls) - 2)))
       IN Extract(builder).prefix
            = e.prefix \o calls[Len(calls) - 1].args[1] \o calls[Len(calls)].args[1]
  /\ LastTwoAre("suffix") =>
       LET e == Extract(PipeOf(SubSeq(calls, 1, Len(calls) - 2)))
       IN Extract(builder).suffix
            = calls[Len(calls)].args[1] \o calls[Len(calls) - 1].args[1] \o e.suffix

\* C17: add(fragment) gives source' = e.source ++ fragment and pattern' =
\* e.prefix ++ source' ++ e.suffix and leaves prefix, suffix and flags as they
\* were, for every accumulated Expression e, also with a prefix and a suffix
C17_AddFrame ==
  /\ LastIs("add") =>
       LET e == BeforeLast
           fragment == Last(calls).args[1]
       IN Extract(builder) =
            [e EXCEPT !.source = e.source \o fragment,
                      !.pattern = e.prefix \o e.source \o fragment \o e.suffix]
  /\ \A fragment \in Fragments :
       LET e == Extract(builder)
       IN Extract(add(fragment, builder)) =
            [e EXCEPT !.source = e.source \o fragment,
                      !.pattern = e.prefix \o e.source \o fragment \o e.suffix]

\* a fragment has been added to a builder whose suffix is not empty
C17_Witness ==
  /\ Len(calls) = 2
  /\ calls[1] = [op |-> "suffix", args |-> <<<<"(">>>>]
  /\ calls[2] = [op |-> "add", args |-> <<<<"a">>>>]
  /\ Extract(builder).pattern = <<"a", "(">>

\* field-wise OR of two flag records, written out independently of the monoid
FlagsOr(x, y) == [k \in FlagNames |-> x[k] \/ y[k]]

\* the flag record with the flag k alone
OnlyFlag(k) == [j \in FlagNames |-> j = k]

\* starting Expressions: empty, flags only, text only, text and flags
StartStates ==
  LET text == [monoidExpressionEmpty EXCEPT
                 !.prefix = <<"(">>, !.source = <<"a">>, !.suffix = <<")">>,
                 !.pattern = <<"(", "a", ")">>]
  IN {monoidExpressionEmpty,
      [monoidExpressionEmpty EXCEPT !.flags = OnlyFlag("sticky")],
      text,
      [text EXCEPT !.flags = FlagsOr(OnlyFlag("unicode"), OnlyFlag("allowMultiple"))]}

\* C16: for every builder b, flag K and starting state p, evaluating K's
\* combinator applied to b from p is evaluating b from p with the flags merged
\* with {K}; the merge is the field-wise OR and the empty flag record, its
\* identity, has every flag false
C16_FlagThenMerge ==
  /\ \A f \in FlagCombinators, p \in StartStates :
       Run(ApplyCall(FlagCall(f), builder), p)
         = [Run(builder, p) EXCEPT !.flags = FlagsOr(@, OnlyFlag(f))]
  /\ \A y \in AllFlags :
       monoidFlagsConcat(Extract(builder).flags, y) = FlagsOr(Extract(builder).flags, y)
  /\ \A k \in FlagNames : ~monoidFlagsEmpty[k]
  /\ monoidFlagsConcat(Extract(builder).flags, monoidFlagsEmpty) = Extract(builder).flags
  /\ monoidFlagsConcat(monoidFlagsEmpty, Extract(builder).flags) = Extract(builder).flags

\* a flag combinator has been applied to a builder that emits text, and from a
\* start with text and other flags the result has the text and all three flags
C16_Witness ==
  /\ Len(calls) = 2
  /\ calls[1].op = "string"
  /\ calls[2] = FlagCall("sticky")
  /\ \E p \in StartStates :
       /\ p.flags.unicode
       /\ Run(builder, p).flags = FlagsOr(p.flags, OnlyFlag("sticky"))
       /\ Run(builder, p).source # p.source

\* the combinators of the chains C18 speaks of
BalancedCombinators == {"string", "maybe", "anything", "something", "or"}

OnlyCalls(ops) == \A i \in 1..Len(calls) : calls[i].op \in ops

RECURSIVE CountCalls(_, _)
CountCalls(cs, op) ==
  IF cs = <<>> THEN 0
  ELSE CountCalls(Front(cs), op) + (IF Last(cs).op = op THEN 1 ELSE 0)

RECURSIVE Repeat(_, _)
Repeat(text, k) == IF k = 0 THEN <<>> ELSE text \o Repeat(text, k - 1)

\* the nesting depth after the text, counting the parentheses that no backslash
\* escapes; -1 once a closing parenthesis has nothing to close
RECURSIVE GroupDepth(_, _, _)
GroupDepth(text, depth, escaped) ==
  IF depth < 0 \/ text = <<>> THEN depth
  ELSE IF escaped THEN GroupDepth(Tail(text), depth, FALSE)
  ELSE IF Head(text) = "\\" THEN GroupDepth(Tail(text), depth, TRUE)
  ELSE IF Head(text) = "(" THEN GroupDepth(Tail(text), depth + 1, FALSE)
  ELSE IF Head(text) = ")" THEN GroupDepth(Tail(text), depth - 1, FALSE)
  ELSE GroupDepth(Tail(text), depth, FALSE)

GroupsBalanced(text) == GroupDepth(text, 0, FALSE) = 0

\* C18: a chain of string, maybe, anything, something and or, in any order,
\* emits a pattern whose unescaped parentheses balance; after k alternations
\* the prefix is k copies of "(?:" and the suffix k copies of ")"
C18_GroupsBalance ==
  OnlyCalls(BalancedCombinators) =>
    LET e == Extract(builder)
        k == CountCalls(calls, "or")
    IN /\ GroupsBalanced(e.pattern)
       /\ e.prefix = Repeat(<<"(", "?", ":">>, k)
       /\ e.suffix = Repeat(<<")">>, k)

\* two alternations, the first on a literal that holds a parenthesis
C18_Witness ==
  /\ Len(calls) = 2
  /\ calls[1] = [op |-> "or", args |-> <<<<"(", "a">>>>]
  /\ calls[2].op = "or"
  /\ Extract(builder).prefix = <<"(", "?", ":", "(", "?", ":">>
  /\ Extract(builder).suffix = <<")", ")">>

baz == <<"b", "a", "z">>

\* the example of C19
C19_Example ==
  Extract(string(baz, or(bar, string(foo, compile)))).pattern
    = <<"(", "?", ":", "(", "?", ":", "f", "o", "o", ")", ")", "|",
        "(", "?", ":", "(", "?", ":", "b", "a", "r", ")",
        "(", "?", ":", "b", "a", "z", ")", ")">>

\* an alternation was called before the last call
AfterOr == \E i \in 1..(Len(calls) - 1) : calls[i].op = "or"

\* C19: the text of a text combinator called after an alternation lands inside
\* the group of the right alternative: the pattern is the prefix, the source so
\* far, the new text and then the closing suffix; string("foo"), or("bar"),
\* string("baz") gives (?:(?:foo))|(?:(?:bar)(?:baz))
C19_TextAfterOr ==
  /\ (AfterOr /\ Last(calls).op \in ClaimedTextCombinators) =>
       LET o == BeforeLast
           e == Extract(builder)
           text == ClaimedFragment(Last(calls))
       IN /\ o.suffix # <<>>
          /\ e.source = o.source \o text
          /\ e.pattern = o.prefix \o o.source \o text \o o.suffix
  /\ C19_Example

\* a literal has been called right after an alternation
C19_Witness ==
  /\ Len(calls) = 2
  /\ calls[1] = [op |-> "or", args |-> <<<<".", "a">>>>]
  /\ calls[2] = [op |-> "string", args |-> <<<<"(", "a">>>>]
  /\ Extract(builder).pattern
       = <<"(", "?", ":", ")", "|", "(", "?", ":", "(", "?", ":", "\\", ".", "a", ")",
           "(", "?", ":", "\\", "(", "a", ")", ")">>

\* C20: along a chain no call switches a flag off; a flag combinator adds its
\* own flag to the flags so far and every other combinator leaves the flags
\* exactly as they were
C20_FlagsOnlyGrow ==
  calls # <<>> =>
    LET o == BeforeLast
        e == Extract(builder)
        op == Last(calls).op
    IN /\ \A k \in FlagNames : o.flags[k] => e.flags[k]
       /\ op \in FlagCombinators => e.flags = [o.flags EXCEPT ![op] = TRUE]
       /\ op \notin FlagCombinators => e.flags = o.flags

\* an alternation has been called on a builder with a flag on, and the flag is
\* still the only one on
C20_Witness ==
  /\ Len(calls) = 2
  /\ calls[1] = FlagCall("unicode")
  /\ calls[2].op = "or"
  /\ Extract(builder).flags = [monoidFlagsEmpty EXCEPT !.unicode = TRUE]
  /\ Extract(builder).source # <<>>

\* a destructor has been called on the builder the pipe has made
Destructed ==
  /\ arg # NoValue
  /\ arg[1].op \in {"toRegex", "toRegexString"}
  /\ arg[1].builder = builder

\* the call of the destructor threw
Threw ==
  IF arg[1].op = "toRegex" THEN ret[1] = SyntaxError ELSE ret[1] = SyntaxErrorThrown

\* the calls of the pipe that emit text
TextCalls == SelectSeq(calls, LAMBDA c : c.op \notin FlagCombinators)

\* a call between(min, max) with min > max is in the pipe
HasBetweenOutOfOrder ==
  \E i \in 1..Len(calls) : calls[i].op = "between" /\ calls[i].args[1] > calls[i].args[2]

\* C12: the builder of any chain evaluates to a pattern that is the fragments
\* of its calls verbatim, also with captures that do not balance, a leading
\* quantifier or between(min, max) with min > max; toRegex and toRegexString
\* throw exactly when the RegExp constructor rejects that pattern, as it does
\* when the unescaped parentheses do not balance, when a quantifier leads and
\* when a quantifier has min > max
C12_ErrorsOnlyAtCompilation ==
  Destructed =>
    LET e == Extract(builder)
    IN /\ e.pattern = ClaimedText(TextCalls)
       /\ Threw <=> ~RegExpAccepts(e.pattern, toFlags(e.flags))
       /\ ~GroupsBalanced(e.pattern) => Threw
       /\ (e.pattern # <<>> /\ Head(e.pattern) \in {"*", "+", "?", ")"}) => Threw
       /\ HasBetweenOutOfOrder => Threw
       /\ OnlyCalls({"string", "sticky"}) => ~Threw

\* toRegexString has thrown on a literal followed by between(10, 2), whose
\* text the builder holds as it was given
C12_Witness ==
  /\ Destructed
  /\ arg[1].op = "toRegexString"
  /\ Len(calls) = 2
  /\ calls[1] = [op |-> "string", args |-> <<<<"(", "a">>>>]
  /\ calls[2] = [op |-> "between", args |-> <<10, 2>>]
  /\ Extract(builder).pattern
       = <<"(", "?", ":", "\\", "(", "a", ")", "{", "1", "0", ",", "2", "}">>
  /\ ret = Some(SyntaxErrorThrown)

\* toRegexString has returned
Rendered == Destructed /\ arg[1].op = "toRegexString" /\ ~Threw

\* C13 as stated: toRegexString returns "/" ++ pattern ++ "/" ++ flags text,
\* the flags text being the one toFlags computes
C13_Original ==
  Rendered =>
    LET e == Extract(builder)
    IN ret[1] = <<"/">> \o e.pattern \o <<"/">> \o toFlags(e.flags)

\* the examples of C13: compile alone, a pattern with "/", a pattern with a
\* line feed, sticky and unicode
C13_Examples ==
  /\ toRegexString(compile) = <<"/", "(", "?", ":", ")", "/">>
  /\ toRegexString(string(<<"\n">>, compile))
       = <<"/", "(", "?", ":", "\\", "n", ")", "/">>
  /\ toRegexString(anyOf(<<"/", "\r">>, compile)) = <<"/", "[", "/", "\\", "r", "]", "/">>
  /\ toRegexString(string(<<"/">>, compile))
       = <<"/", "(", "?", ":", "\\", "/", ")", "/">>
  /\ toRegexString(unicode(sticky(compile))) = <<"/", "(", "?", ":", ")", "/", "u", "y">>

\* C13 as amended: toRegexString returns "/" ++ source ++ "/" ++ flags, where
\* source is "(?:)" for the empty pattern and otherwise the pattern with each
\* "/" outside a character class and each line terminator escaped (the pattern
\* itself when it has neither), and flags are the codes of the true flags in
\* the order g, i, m, s, u, y
C13_RendersSourceAndFlags ==
  /\ Rendered =>
       LET e == Extract(builder)
           body == IF e.pattern = <<>> THEN <<"(", "?", ":", ")">>
                   ELSE IF \A i \in 1..Len(e.pattern) :
                             e.pattern[i] \notin LineTerminators \cup {"/"}
                     THEN e.pattern
                   ELSE EscapeSlashes(e.pattern, FALSE, FALSE)
       IN ret[1] = <<"/">> \o body \o <<"/">> \o FlagsTextIn(ClaimedFlagOrder, e.flags)
  /\ C13_Examples

\* toRegexString has rendered the empty pattern with sticky and unicode set
C13_Witness ==
  /\ Rendered
  /\ Len(calls) = 2
  /\ calls[1] = FlagCall("sticky")
  /\ calls[2] = FlagCall("unicode")
  /\ ret = Some(<<"/", "(", "?", ":", ")", "/", "u", "y">>)

\* the with<Flag> pipeables and the flag of each
WithFlag ==
  [withMultiple |-> "allowMultiple", withCaseInsensitive |-> "caseInsensitive",
   withLineByLine |-> "lineByLine", withSingleLine |-> "singleLine",
   withSticky |-> "sticky", withUnicode |-> "unicode"]

\* C14: with<K>(false)(b) yields an Expression whose flag K is false, also when
\* K was switched on earlier in b, with<K>(true)(b) one whose flag K is true,
\* and the text fields are those of b evaluated from the empty Expression
C14_SwitchOnOrOff ==
  (arg # NoValue /\ arg[1].op \in DOMAIN WithFlag) =>
    /\ ret[1].flags[WithFlag[arg[1].op]] = arg[1].flag
    /\ TextOf(ret[1]) = TextOf(Extract(arg[1].builder))

====
